---- MODULE Spec2Model ----
(***************************************************************************)
(* Model of the emergency triage core:                                     *)
(*   src/services/triageEngine.ts   TriageEngine (calculate,               *)
(*                                  checkRedFlags, computeABCDE)           *)
(*   src/services/geminiService.ts  GeminiService (localExtract,           *)
(*                                  processEmergencyChat)                  *)
(*   src/constants.ts               TriageLevel, Vitals, TriageResult      *)
(*                                                                         *)
(* A Vitals field is an optional JavaScript property.  It is modelled as a *)
(* record [tag, val]: tag "absent" (the property is not there, reads as    *)
(* undefined), "null" (the property holds null, which JSON can carry) or   *)
(* "val" (the property holds val).  Temperatures are in tenths of a degree *)
(* Celsius, so that 38.0 is 380.                                           *)
(***************************************************************************)
EXTENDS Integers, Sequences, FiniteSets, TLC

VARIABLES
    engineVitals,     \* argument of a direct call of TriageEngine.calculate
    engineResult,     \* the TriageResult that call returned
    engineReturned,   \* whether the call has returned
    pc,                   \* where processEmergencyChat stands
    localVitals,          \* const localVitals
    extractResponse,      \* the promise of the first generateContent call
    finalVitals,          \* const finalVitals
    triageResult,         \* const triageResult of the try block
    explanationResponse,  \* the promise of the second generateContent call
    calcCalls,            \* calls of TriageEngine.calculate in this invocation
    result,               \* the value processEmergencyChat resolved with
    extractInput,     \* a text given to localExtract
    extractVitals,    \* the record localExtract returned for it
    extractTriage,    \* TriageEngine.calculate of that record
    extractDone,      \* whether both have returned
    appInput,         \* App: the `input` state, the text of the textarea
    isTyping,         \* App: the `isTyping` state
    patient,          \* App: the `patient` state; `from` records which
                      \* handleSend call set it
    requests          \* App: the handleSend calls so far, in order, each
                      \* with the input and patient it closed over

engineVars == <<engineVitals, engineResult, engineReturned>>

chatVars ==
    <<pc, localVitals, extractResponse, finalVitals, triageResult,
      explanationResponse, calcCalls, result>>

extractVars == <<extractInput, extractVitals, extractTriage, extractDone>>

appVars == <<appInput, isTyping, patient, requests>>

vars ==
    <<engineVitals, engineResult, engineReturned, pc, localVitals,
      extractResponse, finalVitals, triageResult, explanationResponse,
      calcCalls, result, extractInput, extractVitals, extractTriage,
      extractDone, appInput, isTyping, patient, requests>>

-----------------------------------------------------------------------------
(* Optional properties *)

AbsentNum == [tag |-> "absent", val |-> 0]
NullNum == [tag |-> "null", val |-> 0]
Num(n) == [tag |-> "val", val |-> n]

AbsentStr == [tag |-> "absent", val |-> ""]
NullStr == [tag |-> "null", val |-> ""]
Str(s) == [tag |-> "val", val |-> s]

\* JavaScript truthiness of a number-typed property: undefined, null and 0
\* are falsy (the `vitals.spo2 && ...` and `!vitals.spo2` tests).
TruthyNum(f) == f.tag = "val" /\ f.val # 0

\* `vitals.consciousness === 'drowsy'` and the like
StrIs(f, s) == f.tag = "val" /\ f.val = s

NumFields == {"age", "systolic_bp", "heart_rate", "spo2", "temperature"}
StrFields == {"consciousness", "doctor_assessment"}
VitalsFields == NumFields \cup StrFields

\* const vitals: Vitals = {}
EmptyVitals ==
    [age |-> AbsentNum, systolic_bp |-> AbsentNum, heart_rate |-> AbsentNum,
     spo2 |-> AbsentNum, temperature |-> AbsentNum,
     consciousness |-> AbsentStr, doctor_assessment |-> AbsentStr]

\* enum TriageLevel
CRITICAL == "CRITICAL"
URGENT == "MODERATE"
STABLE == "STABLE"
UNKNOWN == "UNKNOWN"

-----------------------------------------------------------------------------
(* TriageEngine.  Strings are the source's, in ASCII: the arrow of           *)
(* decision_pathway is written "->" and the degree sign is left out.        *)

RECURSIVE Join(_, _)
\* Array.prototype.join
Join(seq, sep) ==
    IF Len(seq) = 0 THEN ""
    ELSE IF Len(seq) = 1 THEN seq[1]
    ELSE seq[1] \o sep \o Join(Tail(seq), sep)

Push(cond, reason) == IF cond THEN <<reason>> ELSE <<>>

\* checkRedFlags with the blood-pressure flag raised below 80 only
checkRedFlags_BpBelowEighty(vitals) ==
    Push(TruthyNum(vitals.spo2) /\ vitals.spo2.val < 90,
         "Oxygen saturation critically low (<90%)")
    \o Push(StrIs(vitals.consciousness, "unconscious"),
            "Patient is unconscious")
    \o Push(TruthyNum(vitals.systolic_bp) /\ vitals.systolic_bp.val < 80,
            "Blood pressure critically low (<90 mmHg)")
    \o Push(StrIs(vitals.doctor_assessment, "critical"),
            "Clinical provider indicates critical condition")

checkRedFlags(vitals) ==
    Push(TruthyNum(vitals.spo2) /\ vitals.spo2.val < 90,
         "Oxygen saturation critically low (<90%)")
    \o Push(StrIs(vitals.consciousness, "unconscious"),
            "Patient is unconscious")
    \o Push(TruthyNum(vitals.systolic_bp) /\ vitals.systolic_bp.val < 90,
            "Blood pressure critically low (<90 mmHg)")
    \o Push(StrIs(vitals.doctor_assessment, "critical"),
            "Clinical provider indicates critical condition")

computeABCDE(vitals) ==
    [A_Airway |->
        IF StrIs(vitals.consciousness, "unconscious") THEN "AT RISK" ELSE "OPEN",
     B_Breathing |->
        IF ~TruthyNum(vitals.spo2) THEN "UNKNOWN"
        ELSE IF vitals.spo2.val < 90 THEN "CRITICAL"
        ELSE IF vitals.spo2.val < 92 THEN "LOW-NORMAL"
        ELSE "ADEQUATE",
     C_Circulation |->
        IF ~TruthyNum(vitals.systolic_bp) THEN "UNKNOWN"
        ELSE IF vitals.systolic_bp.val < 90 THEN "SHOCK"
        ELSE IF vitals.systolic_bp.val < 100 THEN "LOW-NORMAL"
        ELSE IF vitals.systolic_bp.val > 180 THEN "HYPERTENSIVE"
        ELSE "ADEQUATE",
     D_Disability |->
        IF StrIs(vitals.consciousness, "unconscious") THEN "UNCONSCIOUS"
        ELSE IF StrIs(vitals.consciousness, "drowsy") THEN "DROWSY"
        ELSE "ALERT",
     E_Exposure |->
        IF ~TruthyNum(vitals.temperature) THEN "UNKNOWN"
        ELSE IF vitals.temperature.val > 400 \/ vitals.temperature.val < 350
            THEN "CRITICAL"
        ELSE IF vitals.temperature.val > 380 THEN "FEVER"
        ELSE "NORMAL"]

\* The scoring rules of calculate, in evaluation order: each is a pair
\* <<weight, reason>> when it fires.
Rule(cond, weight, reason) ==
    IF cond THEN <<[weight |-> weight, reason |-> reason]>> ELSE <<>>

BpRule(vitals) ==
    IF ~TruthyNum(vitals.systolic_bp) THEN <<>>
    ELSE IF vitals.systolic_bp.val >= 80 /\ vitals.systolic_bp.val < 90
        THEN <<[weight |-> 2,
                reason |-> "Blood pressure in low-normal range (80-90 mmHg)"]>>
    ELSE IF vitals.systolic_bp.val > 180
        THEN <<[weight |-> 2,
                reason |-> "Blood pressure elevated above 180 mmHg"]>>
    ELSE <<>>

FiredRules(vitals) ==
    Rule(TruthyNum(vitals.spo2) /\ vitals.spo2.val >= 90 /\ vitals.spo2.val < 92,
         2, "Oxygen saturation in low-normal range (90-92%)")
    \o Rule(TruthyNum(vitals.heart_rate)
                /\ (vitals.heart_rate.val < 50 \/ vitals.heart_rate.val > 120),
            2, "Heart rate abnormal: below 50 or above 120 bpm")
    \o BpRule(vitals)
    \o Rule(StrIs(vitals.consciousness, "drowsy"), 3, "Patient is drowsy")
    \o Rule(TruthyNum(vitals.temperature) /\ vitals.temperature.val > 380,
            1, "Body temperature elevated above 38 C")
    \o Rule(TruthyNum(vitals.age) /\ vitals.age.val > 60,
            1, "Patient age over 60 years")
    \o Rule(StrIs(vitals.doctor_assessment, "moderate"),
            2, "Provider assessment indicates moderate risk")

RECURSIVE SumWeights(_)
RECURSIVE SumWeights_FromOne(_)

\* SumWeights with the score started at 1 instead of 0
SumWeights_FromOne(rules) ==
    IF Len(rules) = 0 THEN 1
    ELSE rules[1].weight + SumWeights_FromOne(Tail(rules))

SumWeights(rules) ==
    IF Len(rules) = 0 THEN 0 ELSE rules[1].weight + SumWeights(Tail(rules))

Reasons(rules) == [i \in 1..Len(rules) |-> rules[i].reason]

\* PriorityOfScore with the CRITICAL threshold compared strictly
PriorityOfScore_StrictSeven(score) ==
    IF score > 7 THEN CRITICAL
    ELSE IF score >= 4 THEN URGENT
    ELSE STABLE

PriorityOfScore(score) ==
    IF score >= 7 THEN CRITICAL
    ELSE IF score >= 4 THEN URGENT
    ELSE STABLE

\* RedFlagResult with the score counted from the flags instead of fixed at 10
RedFlagResult_CountedScore(vitals, redFlags) ==
    [priority |-> CRITICAL,
     score |-> Len(redFlags),
     reasons |-> redFlags,
     red_flags_detected |-> TRUE,
     abcde_status |-> computeABCDE(vitals),
     narrative_summary |->
        "CRITICAL: " \o redFlags[1] \o ". Immediate emergency response required.",
     decision_pathway |-> "RED FLAG DETECTED -> CRITICAL (scored 10/10)"]

RedFlagResult(vitals, redFlags) ==
    [priority |-> CRITICAL,
     score |-> 10,
     reasons |-> redFlags,
     red_flags_detected |-> TRUE,
     abcde_status |-> computeABCDE(vitals),
     narrative_summary |->
        "CRITICAL: " \o redFlags[1] \o ". Immediate emergency response required.",
     decision_pathway |-> "RED FLAG DETECTED -> CRITICAL (scored 10/10)"]

ScoredResult(vitals) ==
    LET rules == FiredRules(vitals)
        score == SumWeights(rules)
        reasons == Reasons(rules)
        priority == PriorityOfScore(score)
    IN  [priority |-> priority,
         score |-> score,
         reasons |-> reasons,
         red_flags_detected |-> FALSE,
         abcde_status |-> computeABCDE(vitals),
         narrative_summary |->
            IF Len(reasons) > 0
            THEN priority \o ": " \o Join(reasons, ", ") \o "."
            ELSE priority \o ": All vital signs within normal limits.",
         decision_pathway |->
            "NO RED FLAGS -> SCORE " \o ToString(score) \o "/10 -> "
                \o priority \o " PRIORITY"]

calculate(vitals) ==
    LET redFlags == checkRedFlags(vitals)
    IN  IF Len(redFlags) > 0
        THEN RedFlagResult(vitals, redFlags)
        ELSE ScoredResult(vitals)

\* PatientState.triage before any assessment has run
NoTriage ==
    [priority |-> UNKNOWN, score |-> 0, reasons |-> <<>>,
     red_flags_detected |-> FALSE, abcde_status |-> computeABCDE(EmptyVitals),
     narrative_summary |-> "", decision_pathway |-> ""]

-----------------------------------------------------------------------------
(* GeminiService.localExtract.  A text is a sequence of one-character       *)
(* strings; the regular expressions are matched character by character.    *)

Digits == {"0", "1", "2", "3", "4", "5", "6", "7", "8", "9"}

IsDigit(c) == c \in Digits

DigitVal(c) ==
    CASE c = "0" -> 0 [] c = "1" -> 1 [] c = "2" -> 2 [] c = "3" -> 3
      [] c = "4" -> 4 [] c = "5" -> 5 [] c = "6" -> 6 [] c = "7" -> 7
      [] c = "8" -> 8 [] c = "9" -> 9

\* String.prototype.toLowerCase, on the letters the texts use
LowerChar(c) ==
    CASE c = "B" -> "b" [] c = "P" -> "p" [] c = "H" -> "h" [] c = "R" -> "r"
      [] c = "S" -> "s" [] c = "O" -> "o" [] c = "U" -> "u"
      [] OTHER -> c

toLowerCase(t) == [i \in 1..Len(t) |-> LowerChar(t[i])]

\* the literal w (lower case) stands in t at position i
LiteralAt(t, i, w) ==
    /\ i >= 1
    /\ i + Len(w) - 1 <= Len(t)
    /\ \A k \in 1..Len(w) : t[i + k - 1] = w[k]

\* String.prototype.includes
includes(t, w) == \E i \in 1..Len(t) : LiteralAt(t, i, w)

DigitAt(t, i) == i >= 1 /\ i <= Len(t) /\ IsDigit(t[i])

\* \d{2,3} at position i, greedy: the number of digits taken, 0 when fewer
\* than two digits stand there
TakeDigits(t, i) ==
    IF DigitAt(t, i) /\ DigitAt(t, i + 1)
    THEN (IF DigitAt(t, i + 2) THEN 3 ELSE 2)
    ELSE 0

RECURSIVE SkipWhile(_, _, _)
\* the first position from i on whose character is not in the class
SkipWhile(t, i, class) ==
    IF i <= Len(t) /\ t[i] \in class THEN SkipWhile(t, i + 1, class) ELSE i

Whitespace == {" "}

\* \D* is greedy and can give nothing back that would let \d{2,3} match
\* earlier, so it ends at the first digit.
SkipNonDigits(t, i) ==
    IF \E k \in i..Len(t) : IsDigit(t[k])
    THEN CHOOSE k \in i..Len(t) :
            IsDigit(t[k]) /\ \A m \in i..(k - 1) : ~IsDigit(t[m])
    ELSE Len(t) + 1

RECURSIVE parseInt(_)
\* parseInt of a run of decimal digits
parseInt(ds) ==
    IF Len(ds) = 0 THEN 0
    ELSE 10 * parseInt(SubSeq(ds, 1, Len(ds) - 1)) + DigitVal(ds[Len(ds)])

NoMatch == <<>>

\* /(?:k1|k2|...)\D*(\d{2,3})/i tried at position i: the captured group, or
\* NoMatch.  lower is the text in lower case (the i flag).
KeywordNumberAt(t, lower, i, keywords) ==
    IF \E w \in keywords : LiteralAt(lower, i, w)
    THEN LET w == CHOOSE x \in keywords : LiteralAt(lower, i, x)
             k == SkipNonDigits(t, i + Len(w))
             n == TakeDigits(t, k)
         IN  IF n > 0 THEN SubSeq(t, k, k + n - 1) ELSE NoMatch
    ELSE NoMatch

\* NumberSuffixAt with the suffix optional, /(\d{2,3})\s*(?:suffix)?/i
NumberSuffixAt_OptionalSuffix(t, lower, i, suffix) ==
    LET n == TakeDigits(t, i)
    IN  IF n > 0 THEN SubSeq(t, i, i + n - 1) ELSE NoMatch

\* /(\d{2,3})\s*suffix/i tried at position i
NumberSuffixAt(t, lower, i, suffix) ==
    LET n == TakeDigits(t, i)
    IN  IF n > 0 /\ LiteralAt(lower, SkipWhile(t, i + n, Whitespace), suffix)
        THEN SubSeq(t, i, i + n - 1)
        ELSE NoMatch

\* /(\d{2,3})\/(\d{2,3})/ tried at position i: group 1
NumberPairAt(t, i) ==
    LET n == TakeDigits(t, i)
    IN  IF n > 0 /\ LiteralAt(t, i + n, <<"/">>) /\ TakeDigits(t, i + n + 1) > 0
        THEN SubSeq(t, i, i + n - 1)
        ELSE NoMatch

\* String.prototype.match without the g flag: the leftmost match.
\* captures[i] is the group captured by a match starting at i, or NoMatch.
FirstMatch(captures) ==
    IF \E i \in 1..Len(captures) : captures[i] # NoMatch
    THEN captures[CHOOSE i \in 1..Len(captures) :
                    /\ captures[i] # NoMatch
                    /\ \A j \in 1..(i - 1) : captures[j] = NoMatch]
    ELSE NoMatch

\* a || b on match results
OrElse(a, b) == IF a # NoMatch THEN a ELSE b

Spo2Keywords ==
    {<<"s", "p", "o", "2">>, <<"o", "x", "y", "g", "e", "n">>, <<"o", "2">>}
BpKeywords == {<<"b", "p">>, <<"p", "r", "e", "s", "s", "u", "r">>}
HrKeywords ==
    {<<"h", "r">>, <<"h", "e", "a", "r", "t">>, <<"p", "u", "l", "s", "e">>}

Extracted(m) == IF m # NoMatch THEN Num(parseInt(m)) ELSE AbsentNum

localExtract(input) ==
    LET lower == toLowerCase(input)
        positions == 1..Len(input)
        spo2Match ==
            OrElse(FirstMatch([i \in positions |->
                        KeywordNumberAt(input, lower, i, Spo2Keywords)]),
                   FirstMatch([i \in positions |->
                        NumberSuffixAt(input, input, i, <<"%">>)]))
        bpMatch ==
            OrElse(FirstMatch([i \in positions |-> NumberPairAt(input, i)]),
                   FirstMatch([i \in positions |->
                        KeywordNumberAt(input, lower, i, BpKeywords)]))
        hrMatch ==
            OrElse(FirstMatch([i \in positions |->
                        KeywordNumberAt(input, lower, i, HrKeywords)]),
                   FirstMatch([i \in positions |->
                        NumberSuffixAt(input, lower, i, <<"b", "p", "m">>)]))
    IN  [EmptyVitals EXCEPT
            !.spo2 = Extracted(spo2Match),
            !.systolic_bp = Extracted(bpMatch),
            !.heart_rate = Extracted(hrMatch),
            !.consciousness =
                IF \/ includes(lower, <<"u","n","c","o","n","s","c","i","o","u","s">>)
                   \/ includes(lower, <<"n","o","t"," ","w","a","k","i","n","g">>)
                   \/ includes(lower, <<"p","a","s","s","e","d"," ","o","u","t">>)
                THEN Str("unconscious")
                ELSE IF \/ includes(lower, <<"c","o","n","f","u","s","e","d">>)
                        \/ includes(lower,
                               <<"d","i","s","o","r","i","e","n","t","e","d">>)
                THEN Str("confused")
                ELSE IF \/ includes(lower, <<"s","l","e","e","p","y">>)
                        \/ includes(lower, <<"d","r","o","w","s","y">>)
                THEN Str("drowsy")
                ELSE Str("alert")]

-----------------------------------------------------------------------------
(* GeminiService.processEmergencyChat *)

\* The longest text: this many phrases, joined by single spaces.
MaxPhrases == 2

Phrases ==
    {<<"s", "p", "o", "2", " ", "8", "5">>,
     <<"9", "5", "%">>,
     <<"b", "p", " ", "1", "2", "0", "/", "8", "0">>,
     <<"B", "P", " ", "8", "5">>,
     <<"h", "r", " ", "1", "3", "0">>,
     <<"8", "0", " ", "b", "p", "m">>,
     <<"u", "n", "c", "o", "n", "s", "c", "i", "o", "u", "s">>,
     <<"d", "r", "o", "w", "s", "y">>,
     <<"c", "o", "n", "f", "u", "s", "e", "d">>,
     <<"f", "e", "e", "l", " ", "o", "f", "f">>}

RECURSIVE JoinPhrases(_)
JoinPhrases(ps) ==
    IF Len(ps) = 0 THEN <<>>
    ELSE IF Len(ps) = 1 THEN ps[1]
    ELSE ps[1] \o <<" ">> \o JoinPhrases(Tail(ps))

Utterances ==
    {JoinPhrases(ps) : ps \in UNION {[1..n -> Phrases] : n \in 0..MaxPhrases}}

Languages == {"en", "hi", "mr"}

\* A settled or unsettled generateContent promise.  kind is what
\* response.text holds: "empty" (undefined or ''), "unparsable" (no JSON),
\* "null" (the JSON text null) or "object" (a JSON object, obj).
NoVitalsResponse == [status |-> "none", kind |-> "none", obj |-> EmptyVitals]
PendingVitals == [status |-> "pending", kind |-> "none", obj |-> EmptyVitals]

\* JSON objects the extraction call can answer with: a property is missing,
\* null or a value.
RemoteVitals ==
    [age : {AbsentNum},
     systolic_bp : {AbsentNum, Num(85)},
     heart_rate : {AbsentNum},
     spo2 : {AbsentNum, NullNum, Num(88), Num(95)},
     temperature : {AbsentNum},
     consciousness : {AbsentStr, NullStr, Str(""), Str("unconscious")},
     doctor_assessment : {AbsentStr, Str("critical")}]

ExtractSettlements ==
    {[status |-> "rejected", kind |-> "none", obj |-> EmptyVitals]}
    \cup {[status |-> "fulfilled", kind |-> k, obj |-> EmptyVitals] :
            k \in {"empty", "unparsable", "null"}}
    \cup {[status |-> "fulfilled", kind |-> "object", obj |-> o] :
            o \in RemoteVitals}

EmptyContent == [explanation |-> AbsentStr, firstAid |-> AbsentStr]

NoContentResponse == [status |-> "none", kind |-> "none", obj |-> EmptyContent]
PendingContent == [status |-> "pending", kind |-> "none", obj |-> EmptyContent]

RemoteContents ==
    [explanation : {AbsentStr, Str("Stay calm, help is coming.")},
     firstAid : {AbsentStr, Str("1. Sit down. 2. Breathe slowly. 3. Call.")}]

ExplanationSettlements ==
    {[status |-> "rejected", kind |-> "none", obj |-> EmptyContent]}
    \cup {[status |-> "fulfilled", kind |-> k, obj |-> EmptyContent] :
            k \in {"empty", "unparsable", "null"}}
    \cup {[status |-> "fulfilled", kind |-> "object", obj |-> o] :
            o \in RemoteContents}

\* `await` of a rejected promise throws
AwaitThrows(response) == response.status = "rejected"

\* JSON.parse(response.text || '{}') throws a SyntaxError
ParseThrows(response) == response.kind = "unparsable"

\* JSON.parse(response.text || '{}') when it does not throw: the JSON null,
\* or an object ('{}' for an empty text)
ParsedIsNull(response) == response.kind = "null"
ParsedObject(response, emptyObject) ==
    IF response.kind = "object" THEN response.obj ELSE emptyObject

\* { ...localVitals, ...aiVitals }: every own property of aiVitals, null
\* included, replaces the local one; spreading null adds nothing.
Merge(local, response) ==
    IF ParsedIsNull(response) THEN local
    ELSE LET aiVitals == ParsedObject(response, EmptyVitals)
         IN  [f \in VitalsFields |->
                IF aiVitals[f].tag # "absent" THEN aiVitals[f] ELSE local[f]]

\* the try block throws before its first call of calculate
ExtractionThrows(response) == AwaitThrows(response) \/ ParseThrows(response)

\* ExplanationThrows as if content were read with content?.explanation
ExplanationThrows_NullTolerated(response) ==
    AwaitThrows(response) \/ ParseThrows(response)

\* the try block throws after the explanation call: a rejected promise, a
\* SyntaxError, or a TypeError on content.explanation when content is null
ExplanationThrows(response) ==
    AwaitThrows(response) \/ ParseThrows(response) \/ ParsedIsNull(response)

NoResult ==
    [vitals |-> EmptyVitals, triage |-> NoTriage, aiExplanation |-> AbsentStr,
     firstAid |-> AbsentStr, isOffline |-> FALSE]

LocalSafetyExplanation ==
    "LOCAL SAFETY ENGINE ACTIVE: Based on the information provided, we have calculated your triage priority locally."

\* Fallback without the offline flag
Fallback_NotFlagged(local) ==
    LET triage == calculate(local)
    IN  [vitals |-> local,
         triage |-> triage,
         aiExplanation |-> Str(LocalSafetyExplanation),
         firstAid |->
            IF triage.priority = CRITICAL
            THEN Str("Apply pressure to wounds. Keep airway clear. Wait for help.")
            ELSE Str("Stay calm. Monitor breathing and stay in a safe place."),
         isOffline |-> FALSE]

\* the return of the catch block
Fallback(local) ==
    LET triage == calculate(local)
    IN  [vitals |-> local,
         triage |-> triage,
         aiExplanation |-> Str(LocalSafetyExplanation),
         firstAid |->
            IF triage.priority = CRITICAL
            THEN Str("Apply pressure to wounds. Keep airway clear. Wait for help.")
            ELSE Str("Stay calm. Monitor breathing and stay in a safe place."),
         isOffline |-> TRUE]

\* the return of the try block
OnlineResult(final, triage, response) ==
    LET content == ParsedObject(response, EmptyContent)
    IN  [vitals |-> final,
         triage |-> triage,
         aiExplanation |-> content.explanation,
         firstAid |-> content.firstAid,
         isOffline |-> FALSE]

\* no text has been given to localExtract
ExtractIdle ==
    /\ extractInput = <<>>
    /\ extractVitals = EmptyVitals
    /\ extractTriage = NoTriage
    /\ extractDone = FALSE

\* useState<...| null>(null): no patient yet
NoPatient ==
    [shown |-> FALSE, from |-> 0, symptoms |-> <<>>, vitals |-> EmptyVitals,
     triage |-> NoTriage, isOffline |-> FALSE]

\* the state of App after its first render
AppIdle ==
    /\ appInput = <<>>
    /\ isTyping = FALSE
    /\ patient = NoPatient
    /\ requests = <<>>

ChatIdle ==
    /\ pc = "idle"
    /\ localVitals = EmptyVitals
    /\ extractResponse = NoVitalsResponse
    /\ finalVitals = EmptyVitals
    /\ triageResult = NoTriage
    /\ explanationResponse = NoContentResponse
    /\ calcCalls = 0
    /\ result = NoResult

\* processEmergencyChat(input, lang) up to its first await
Invoke(input, lang) ==
    /\ pc = "idle"
    /\ localVitals' = localExtract(input)
    /\ extractResponse' = PendingVitals
    /\ pc' = "awaitExtract"
    /\ UNCHANGED <<finalVitals, triageResult, explanationResponse, calcCalls,
                   result>>
    /\ UNCHANGED <<engineVars, extractVars, appVars>>

\* the remote side answers the extraction call, or the call fails
ExtractSettles(response) ==
    /\ pc = "awaitExtract"
    /\ extractResponse.status = "pending"
    /\ extractResponse' = response
    /\ UNCHANGED <<pc, localVitals, finalVitals, triageResult,
                   explanationResponse, calcCalls, result>>
    /\ UNCHANGED <<engineVars, extractVars, appVars>>

\* from the first await to the second, or through the catch block to return
ContinueAfterExtract ==
    /\ pc = "awaitExtract"
    /\ extractResponse.status \in {"fulfilled", "rejected"}
    /\ IF ExtractionThrows(extractResponse)
       THEN /\ result' = Fallback(localVitals)
            /\ calcCalls' = calcCalls + 1
            /\ pc' = "done"
            /\ UNCHANGED <<finalVitals, triageResult, explanationResponse>>
       ELSE /\ finalVitals' = Merge(localVitals, extractResponse)
            /\ triageResult' = calculate(finalVitals')
            /\ calcCalls' = calcCalls + 1
            /\ explanationResponse' = PendingContent
            /\ pc' = "awaitExplain"
            /\ UNCHANGED result
    /\ UNCHANGED <<localVitals, extractResponse>>
    /\ UNCHANGED <<engineVars, extractVars, appVars>>

\* the remote side answers the explanation call, or the call fails
ExplanationSettles(response) ==
    /\ pc = "awaitExplain"
    /\ explanationResponse.status = "pending"
    /\ explanationResponse' = response
    /\ UNCHANGED <<pc, localVitals, extractResponse, finalVitals, triageResult,
                   calcCalls, result>>
    /\ UNCHANGED <<engineVars, extractVars, appVars>>

\* from the second await to return, through the catch block when it throws
ContinueAfterExplanation ==
    /\ pc = "awaitExplain"
    /\ explanationResponse.status \in {"fulfilled", "rejected"}
    /\ IF ExplanationThrows(explanationResponse)
       THEN /\ result' = Fallback(localVitals)
            /\ calcCalls' = calcCalls + 1
       ELSE /\ result' = OnlineResult(finalVitals, triageResult,
                                      explanationResponse)
            /\ UNCHANGED calcCalls
    /\ pc' = "done"
    /\ UNCHANGED <<localVitals, extractResponse, finalVitals, triageResult,
                   explanationResponse>>
    /\ UNCHANGED <<engineVars, extractVars, appVars>>

\* the caller has taken the result; the service is ready for the next call
Returned ==
    /\ pc = "done"
    /\ pc' = "idle"
    /\ localVitals' = EmptyVitals
    /\ extractResponse' = NoVitalsResponse
    /\ finalVitals' = EmptyVitals
    /\ triageResult' = NoTriage
    /\ explanationResponse' = NoContentResponse
    /\ calcCalls' = 0
    /\ result' = NoResult
    /\ UNCHANGED <<engineVars, extractVars, appVars>>

Init ==
    /\ engineVitals = EmptyVitals
    /\ engineResult = NoTriage
    /\ engineReturned = FALSE
    /\ ChatIdle
    /\ ExtractIdle
    /\ AppIdle

Next ==
    \/ \E input \in Utterances, lang \in Languages : Invoke(input, lang)
    \/ \E response \in ExtractSettlements : ExtractSettles(response)
    \/ ContinueAfterExtract
    \/ \E response \in ExplanationSettlements : ExplanationSettles(response)
    \/ ContinueAfterExplanation
    \/ Returned

Spec == Init /\ [][Next]_vars

\* The continuation of an await runs once its promise has settled; nothing
\* in the code makes a promise settle.
LiveSpec ==
    Spec /\ WF_vars(ContinueAfterExtract) /\ WF_vars(ContinueAfterExplanation)

-----------------------------------------------------------------------------
(* localExtract followed by TriageEngine.calculate, on a text alone: what  *)
(* processEmergencyChat computes before, and without, any remote answer.   *)

\* texts without a vitals pattern stand beside the phrases that hold one
ExtractPhrases ==
    Phrases \cup
    {<<"a", "g", "e", " ", "6", "5">>,
     <<"t", "e", "m", "p", "e", "r", "a", "t", "u", "r", "e", " ", "3", "9">>,
     <<"h", "e", "a", "r", "t", " ", "h", "u", "r", "t", "s">>}

ExtractTexts ==
    {JoinPhrases(ps) :
        ps \in UNION {[1..n -> ExtractPhrases] : n \in 0..MaxPhrases}}

ExtractInit ==
    /\ extractInput \in ExtractTexts
    /\ extractVitals = EmptyVitals
    /\ extractTriage = NoTriage
    /\ extractDone = FALSE
    /\ engineVitals = EmptyVitals
    /\ engineResult = NoTriage
    /\ engineReturned = FALSE
    /\ ChatIdle
    /\ AppIdle

\* const localVitals = this.localExtract(input);
\* const triageResult = TriageEngine.calculate(localVitals)
ExtractAndTriage ==
    /\ ~extractDone
    /\ extractVitals' = localExtract(extractInput)
    /\ extractTriage' = calculate(extractVitals')
    /\ extractDone' = TRUE
    /\ UNCHANGED extractInput
    /\ UNCHANGED <<engineVars, chatVars, appVars>>

ExtractNext == ExtractAndTriage

ExtractSpec == ExtractInit /\ [][ExtractNext]_vars

-----------------------------------------------------------------------------
(* The chat screen of App: the textarea, the send button and handleSend.   *)
(* A processEmergencyChat call shares no state with another, so a call in  *)
(* flight is held as a pending request and its two remote answers are      *)
(* drawn when it resolves.  The message list, the language and the vitals  *)
(* panel are left out.                                                     *)

MaxSends == 3

\* what can be typed, or set by a chip: two utterances and a blank text
AppTexts ==
    {<<"s", "p", "o", "2", " ", "8", "5">>,
     <<"f", "e", "e", "l", " ", "o", "f", "f">>,
     <<" ">>}

AppExtractSettlements ==
    {[status |-> "rejected", kind |-> "none", obj |-> EmptyVitals],
     [status |-> "fulfilled", kind |-> "empty", obj |-> EmptyVitals]}

AppExplanationSettlements ==
    {[status |-> "rejected", kind |-> "none", obj |-> EmptyContent],
     [status |-> "fulfilled", kind |-> "object",
      obj |-> [explanation |-> Str("Stay calm, help is coming."),
               firstAid |-> Str("1. Sit down. 2. Breathe slowly. 3. Call.")]]}

\* String.prototype.trim
RECURSIVE trim(_)
trim(t) ==
    IF t = <<>> THEN t
    ELSE IF Head(t) \in Whitespace THEN trim(Tail(t))
    ELSE IF t[Len(t)] \in Whitespace THEN trim(SubSeq(t, 1, Len(t) - 1))
    ELSE t

\* what processEmergencyChat(input, lang) resolves with, given the answers
\* of its two remote calls
processEmergencyChat(input, extraction, explanation) ==
    LET local == localExtract(input)
    IN  IF ExtractionThrows(extraction) THEN Fallback(local)
        ELSE LET final == Merge(local, extraction)
                 triage == calculate(final)
             IN  IF ExplanationThrows(explanation) THEN Fallback(local)
                 ELSE OnlineResult(final, triage, explanation)

Pending == {i \in 1..Len(requests) : requests[i].pending}

\* onChange={(e) => setInput(e.target.value)}, onClick={() => setInput(flag)}
Type(text) ==
    /\ appInput' = text
    /\ UNCHANGED <<isTyping, patient, requests>>
    /\ UNCHANGED <<engineVars, chatVars, extractVars>>

\* handleSend up to its await
handleSend ==
    IF trim(appInput) = <<>>
    THEN UNCHANGED appVars
    ELSE /\ Len(requests) < MaxSends
         /\ requests' = Append(requests,
                [input |-> appInput, symptoms |-> patient.symptoms,
                 pending |-> TRUE])
         /\ appInput' = <<>>
         /\ isTyping' = TRUE
         /\ UNCHANGED patient

\* onKeyDown: Enter without Shift calls handleSend
PressEnter ==
    /\ handleSend
    /\ UNCHANGED <<engineVars, chatVars, extractVars>>

\* the send button: disabled={!input.trim() || isTyping}
ClickSend ==
    /\ trim(appInput) # <<>>
    /\ ~isTyping
    /\ handleSend
    /\ UNCHANGED <<engineVars, chatVars, extractVars>>

\* handleSend from its await to its end: the call of request i resolves
Resolve(i, extraction, explanation) ==
    /\ i \in Pending
    /\ LET data == processEmergencyChat(requests[i].input, extraction,
                                        explanation)
       IN  patient' =
              [shown |-> TRUE,
               from |-> i,
               symptoms |-> <<requests[i].input>> \o requests[i].symptoms,
               vitals |-> data.vitals,
               triage |-> data.triage,
               isOffline |-> data.isOffline]
    /\ isTyping' = FALSE
    /\ requests' = [requests EXCEPT ![i].pending = FALSE]
    /\ UNCHANGED appInput
    /\ UNCHANGED <<engineVars, chatVars, extractVars>>

AppInit ==
    /\ AppIdle
    /\ ExtractIdle
    /\ ChatIdle
    /\ engineVitals = EmptyVitals
    /\ engineResult = NoTriage
    /\ engineReturned = FALSE

AppNext ==
    \/ \E text \in AppTexts : Type(text)
    \/ PressEnter
    \/ ClickSend
    \/ \E i \in 1..MaxSends :
         \E extraction \in AppExtractSettlements :
           \E explanation \in AppExplanationSettlements :
             Resolve(i, extraction, explanation)

AppSpec == AppInit /\ [][AppNext]_vars

-----------------------------------------------------------------------------
(* Direct calls of the public static TriageEngine.calculate *)

\* Values on both sides of every threshold the engine compares against;
\* 0 is in the stated domain of spo2.
AgeValues == {AbsentNum, Num(60), Num(61)}
BpValues == {AbsentNum, Num(0), Num(80), Num(89), Num(90), Num(99), Num(100),
             Num(180), Num(181)}
HrValues == {AbsentNum, Num(49), Num(50), Num(120), Num(121)}
Spo2Values == {AbsentNum, Num(0), Num(89), Num(90), Num(91), Num(92)}
TempValues == {AbsentNum, Num(0), Num(349), Num(350), Num(380), Num(381),
               Num(400), Num(401)}
ConsciousnessValues ==
    {AbsentStr, Str("alert"), Str("confused"), Str("drowsy"), Str("unconscious")}
AssessmentValues == {AbsentStr, Str("low"), Str("moderate"), Str("critical")}

VitalsDomain ==
    [age : AgeValues, systolic_bp : BpValues, heart_rate : HrValues,
     spo2 : Spo2Values, temperature : TempValues,
     consciousness : ConsciousnessValues, doctor_assessment : AssessmentValues]

EngineInit ==
    /\ engineVitals \in VitalsDomain
    /\ engineResult = NoTriage
    /\ engineReturned = FALSE
    /\ ChatIdle
    /\ ExtractIdle
    /\ AppIdle

\* const r = TriageEngine.calculate(vitals)
EngineCalculate ==
    /\ ~engineReturned
    /\ engineResult' = calculate(engineVitals)
    /\ engineReturned' = TRUE
    /\ UNCHANGED engineVitals
    /\ UNCHANGED <<chatVars, extractVars, appVars>>

EngineNext == EngineCalculate

EngineSpec == EngineInit /\ [][EngineNext]_vars

-----------------------------------------------------------------------------
(* Properties of TriageEngine.calculate, checked under EngineSpec *)

Present(f) == f.tag = "val"

\* The red-flag conditions as the specification states them: a field that
\* is present and below its threshold, or a critical keyword.
StatedRedFlag(v) ==
    \/ Present(v.spo2) /\ v.spo2.val < 90
    \/ StrIs(v.consciousness, "unconscious")
    \/ Present(v.systolic_bp) /\ v.systolic_bp.val < 90
    \/ StrIs(v.doctor_assessment, "critical")

\* C1 (as claimed): every record whose spo2 is present and below 90, 0
\* included, is returned CRITICAL with score 10 and red_flags_detected.
C1_RedFlagDominance ==
    (engineReturned /\ Present(engineVitals.spo2) /\ engineVitals.spo2.val < 90)
        => /\ engineResult.priority = CRITICAL
           /\ engineResult.score = 10
           /\ engineResult.red_flags_detected

\* C2 (as claimed): red_flags_detected holds exactly when score = 10 and
\* priority = CRITICAL.
C2_RedFlagsIffTenCritical ==
    engineReturned =>
        (engineResult.red_flags_detected
            <=> (engineResult.score = 10 /\ engineResult.priority = CRITICAL))

\* C2 (amended): red_flags_detected implies score = 10 and priority =
\* CRITICAL; a result with red_flags_detected false comes from the score
\* path, whatever its score.
C2_RedFlagsImplyTenCritical ==
    engineReturned =>
        /\ engineResult.red_flags_detected
            => (engineResult.score = 10 /\ engineResult.priority = CRITICAL)
        /\ engineResult.red_flags_detected
            <=> (Len(checkRedFlags(engineVitals)) > 0)

C2_Witness ==
    /\ engineReturned
    /\ engineResult.red_flags_detected
    /\ Len(engineResult.reasons) = 2

\* C3: when no red-flag condition holds, priority is a step function of the
\* returned score: STABLE below 4, URGENT from 4 to 6, CRITICAL from 7.
C3_PriorityStepOfScore ==
    (engineReturned
        /\ (~StatedRedFlag(engineVitals) \/ ~engineResult.red_flags_detected)) =>
        /\ ~engineResult.red_flags_detected
        /\ engineResult.score < 4 => engineResult.priority = STABLE
        /\ (4 <= engineResult.score /\ engineResult.score < 7)
            => engineResult.priority = URGENT
        /\ engineResult.score >= 7 => engineResult.priority = CRITICAL

C3_Witness ==
    /\ engineReturned
    /\ ~StatedRedFlag(engineVitals)
    /\ engineResult.score = 7
    /\ engineResult.priority = CRITICAL

\* The ABCDE derivation as the specification states it: UNKNOWN exactly when
\* the field is absent.
StatedABCDE(v) ==
    [A_Airway |->
        IF StrIs(v.consciousness, "unconscious") THEN "AT RISK" ELSE "OPEN",
     B_Breathing |->
        IF ~Present(v.spo2) THEN "UNKNOWN"
        ELSE IF v.spo2.val < 90 THEN "CRITICAL"
        ELSE IF v.spo2.val < 92 THEN "LOW-NORMAL"
        ELSE "ADEQUATE",
     C_Circulation |->
        IF ~Present(v.systolic_bp) THEN "UNKNOWN"
        ELSE IF v.systolic_bp.val < 90 THEN "SHOCK"
        ELSE IF v.systolic_bp.val < 100 THEN "LOW-NORMAL"
        ELSE IF v.systolic_bp.val > 180 THEN "HYPERTENSIVE"
        ELSE "ADEQUATE",
     D_Disability |->
        IF StrIs(v.consciousness, "unconscious") THEN "UNCONSCIOUS"
        ELSE IF StrIs(v.consciousness, "drowsy") THEN "DROWSY"
        ELSE "ALERT",
     E_Exposure |->
        IF ~Present(v.temperature) THEN "UNKNOWN"
        ELSE IF v.temperature.val > 400 \/ v.temperature.val < 350
            THEN "CRITICAL"
        ELSE IF v.temperature.val > 380 THEN "FEVER"
        ELSE "NORMAL"]

\* C9 (as claimed): on both paths abcde_status is the stated derivation from
\* the vitals, with UNKNOWN exactly when the field is absent.
C9_ABCDEAsStated ==
    engineReturned => engineResult.abcde_status = StatedABCDE(engineVitals)

\* C11 (as claimed): the returned score is an integer in 0..10.
C11_ScoreWithinTen ==
    engineReturned => engineResult.score \in 0..10

\* C11 (amended): the returned score is an integer in 0..13: 10 on the
\* red-flag path, the unclamped sum of the fired rule weights (at most
\* 2+2+2+3+1+1+2 = 13) on the score path.
C11_ScoreWithinThirteen ==
    engineReturned =>
        /\ engineResult.score \in 0..13
        /\ engineResult.red_flags_detected => engineResult.score = 10

C11_Witness ==
    /\ engineReturned
    /\ ~engineResult.red_flags_detected
    /\ engineResult.score = 13
    /\ Len(engineResult.reasons) = 7

\* the reasons of the red-flag predicates that hold, as stated, in the
\* stated order
StatedRedFlagReasons(v) ==
    Push(Present(v.spo2) /\ v.spo2.val < 90,
         "Oxygen saturation critically low (<90%)")
    \o Push(StrIs(v.consciousness, "unconscious"), "Patient is unconscious")
    \o Push(Present(v.systolic_bp) /\ v.systolic_bp.val < 90,
            "Blood pressure critically low (<90 mmHg)")
    \o Push(StrIs(v.doctor_assessment, "critical"),
            "Clinical provider indicates critical condition")

\* C13 (as claimed): when a red-flag predicate holds, reasons holds one
\* entry for every red-flag predicate that holds, in the fixed order, and
\* nothing else; the narrative is built from the first entry.
C13_EveryRedFlagListed ==
    (engineReturned /\ StatedRedFlag(engineVitals)) =>
        /\ engineResult.reasons = StatedRedFlagReasons(engineVitals)
        /\ engineResult.narrative_summary =
             "CRITICAL: " \o StatedRedFlagReasons(engineVitals)[1]
                \o ". Immediate emergency response required."

LowNormalBpReason == "Blood pressure in low-normal range (80-90 mmHg)"
ElevatedBpReason == "Blood pressure elevated above 180 mmHg"

InReasons(reason, reasons) == \E i \in 1..Len(reasons) : reasons[i] = reason

\* C15: a systolic_bp in [80, 90) always returns on the red-flag path, so
\* no result holds the low-normal blood-pressure reason, and on the score
\* path the blood-pressure rule fires only for systolic_bp > 180.
C15_LowNormalBpRuleNeverFires ==
    engineReturned =>
        /\ ~InReasons(LowNormalBpReason, engineResult.reasons)
        /\ (/\ Present(engineVitals.systolic_bp)
            /\ engineVitals.systolic_bp.val >= 80
            /\ engineVitals.systolic_bp.val < 90)
            => engineResult.red_flags_detected
        /\ ~engineResult.red_flags_detected =>
            (InReasons(ElevatedBpReason, engineResult.reasons)
                <=> (Present(engineVitals.systolic_bp)
                        /\ engineVitals.systolic_bp.val > 180))

C15_Witness ==
    /\ engineReturned
    /\ engineVitals.systolic_bp = Num(89)
    /\ engineResult.red_flags_detected
    /\ engineResult.reasons = <<"Blood pressure critically low (<90 mmHg)">>

-----------------------------------------------------------------------------
(* Properties of processEmergencyChat, checked under Spec and LiveSpec *)

EnrichmentRejected == extractResponse.status = "rejected"

EnrichmentUnparsable ==
    extractResponse.status = "fulfilled" /\ extractResponse.kind = "unparsable"

EnrichmentSucceeded ==
    extractResponse.status = "fulfilled" /\ extractResponse.kind # "unparsable"

\* the explanation call was made and gave no usable JSON value
ExplanationFailed ==
    \/ explanationResponse.status = "rejected"
    \/ /\ explanationResponse.status = "fulfilled"
       /\ explanationResponse.kind \in {"unparsable", "null"}

\* the explanation call answered, and its answer is no object holding both
\* required fields
ExplanationMalformed ==
    /\ explanationResponse.status = "fulfilled"
    /\ \/ explanationResponse.kind \in {"empty", "unparsable", "null"}
       \/ /\ explanationResponse.kind = "object"
          /\ \/ ~Present(explanationResponse.obj.explanation)
             \/ ~Present(explanationResponse.obj.firstAid)

\* C4: when the enrichment call rejects, processEmergencyChat resolves with
\* a complete result: isOffline, the locally extracted vitals, the triage
\* of the local record alone, and explanation and first-aid texts.
C4_EnrichmentFailureFallsBack ==
    (pc = "done" /\ EnrichmentRejected) =>
        /\ result.isOffline
        /\ result.vitals = localVitals
        /\ result.triage = calculate(localVitals)
        /\ Present(result.aiExplanation)
        /\ Present(result.firstAid)
        /\ explanationResponse.status = "none"

C4_Witness ==
    /\ pc = "done"
    /\ EnrichmentRejected
    /\ result.vitals.spo2 = Num(85)
    /\ result.triage.priority = CRITICAL

\* C5 (as claimed): every invocation of processEmergencyChat eventually
\* returns, also when a remote call never answers.
C5_EveryInvocationReturns ==
    (pc \in {"awaitExtract", "awaitExplain"}) ~> (pc = "done")

C7_MalformedMeansOffline ==
    pc = "done" =>
        /\ (ExplanationMalformed \/ EnrichmentUnparsable) =>
            /\ result.isOffline
            /\ result.aiExplanation = Str(LocalSafetyExplanation)
            /\ Present(result.firstAid)
        /\ ~result.isOffline =>
            /\ EnrichmentSucceeded
            /\ explanationResponse.status = "fulfilled"
            /\ ~ExplanationMalformed

\* what the extraction call answered, as a record: nothing for an empty
\* text or the JSON null
RemoteRecord ==
    IF extractResponse.kind = "object" THEN extractResponse.obj ELSE EmptyVitals

\* a field holding an explicitly present value: not missing, not null, not
\* the empty string
ExplicitNum(x) == x.tag = "val"
ExplicitStr(x) == x.tag = "val" /\ x.val # ""

\* C8 (as claimed): every field of the reconciled record is the remote
\* value when the remote record holds an explicitly present value, and the
\* local value otherwise, so no remote record empties a field that is
\* present in the local record.
C8_MergeNeverDegrades ==
    (pc \in {"awaitExplain", "done"} /\ EnrichmentSucceeded) =>
        /\ \A f \in NumFields :
            finalVitals[f] = (IF ExplicitNum(RemoteRecord[f])
                              THEN RemoteRecord[f] ELSE localVitals[f])
        /\ \A f \in StrFields :
            finalVitals[f] = (IF ExplicitStr(RemoteRecord[f])
                              THEN RemoteRecord[f] ELSE localVitals[f])

\* the local record merged with what the extraction call answered: a
\* field the remote record holds replaces the local one
Reconciled ==
    [f \in VitalsFields |->
        IF RemoteRecord[f].tag # "absent" THEN RemoteRecord[f]
        ELSE localVitals[f]]

\* C14 (as claimed): whenever the enrichment call succeeded, the returned
\* vitals are the reconciled record and the returned triage is calculate
\* of the reconciled record, also when the explanation call fails; only
\* when the enrichment call failed are the returned vitals and triage
\* those of the local record alone.
C14_TriageOnBestVitals ==
    pc = "done" =>
        /\ EnrichmentSucceeded =>
            /\ result.vitals = Reconciled
            /\ result.triage = calculate(Reconciled)
        /\ ~EnrichmentSucceeded =>
            /\ result.vitals = localVitals
            /\ result.triage = calculate(localVitals)

-----------------------------------------------------------------------------
(* Properties of localExtract, checked under ExtractSpec *)

\* the literal w occurs in the text t
Occurs(w, t) ==
    \E i \in 1..(Len(t) - Len(w) + 1) : \A k \in 1..Len(w) : t[i + k - 1] = w[k]

VitalsTokens ==
    {<<"s", "p", "o", "2">>, <<"o", "x", "y", "g", "e", "n">>, <<"o", "2">>,
     <<"b", "p">>, <<"p", "r", "e", "s", "s", "u", "r">>,
     <<"h", "r">>, <<"h", "e", "a", "r", "t">>, <<"p", "u", "l", "s", "e">>,
     <<"%">>, <<"/">>}

ConsciousnessTokens ==
    {<<"u","n","c","o","n","s","c","i","o","u","s">>,
     <<"n","o","t"," ","w","a","k","i","n","g">>,
     <<"p","a","s","s","e","d"," ","o","u","t">>,
     <<"c","o","n","f","u","s","e","d">>,
     <<"d","i","s","o","r","i","e","n","t","e","d">>,
     <<"s","l","e","e","p","y">>, <<"d","r","o","w","s","y">>}

HasDigitPair(t) ==
    \E i \in 1..(Len(t) - 1) : t[i] \in Digits /\ t[i + 1] \in Digits

\* a text with no recognised vitals pattern and no consciousness keyword:
\* it names no vitals keyword or sign, or it holds no number of two digits,
\* and it holds no consciousness phrase
NoRecognisedPattern(t) ==
    /\ \/ \A w \in VitalsTokens : ~Occurs(w, toLowerCase(t))
       \/ ~HasDigitPair(t)
    /\ \A w \in ConsciousnessTokens : ~Occurs(w, toLowerCase(t))

\* C12: for a text with no recognised vitals pattern or consciousness
\* keyword, the empty text included, localExtract returns a record whose
\* only set field is consciousness = alert, and calculate of it returns
\* score 0, STABLE, no reasons, no red flag and the normal-limits narrative.
C12_NoPatternGivesStable ==
    (extractDone /\ NoRecognisedPattern(extractInput)) =>
        /\ extractVitals = [EmptyVitals EXCEPT !.consciousness = Str("alert")]
        /\ extractTriage.score = 0
        /\ extractTriage.priority = STABLE
        /\ extractTriage.reasons = <<>>
        /\ ~extractTriage.red_flags_detected
        /\ extractTriage.narrative_summary =
             "STABLE: All vital signs within normal limits."

C12_Witness ==
    /\ extractDone
    /\ NoRecognisedPattern(extractInput)
    /\ extractInput = <<"a", "g", "e", " ", "6", "5", " ", "t", "e", "m", "p", "e", "r", "a", "t", "u", "r", "e", " ", "3", "9">>
    /\ extractTriage.priority = STABLE

-----------------------------------------------------------------------------
(* Properties of the chat screen, checked under AppSpec *)

\* C16 (as claimed): at most one processEmergencyChat request is in flight
\* at a time; once every request has completed, the patient shown is the
\* result of the most recently submitted utterance; and isTyping is false
\* only when no request is in flight.
C16_NoCrossTalk ==
    /\ Cardinality(Pending) <= 1
    /\ (requests # <<>> /\ Pending = {}) =>
          /\ patient.shown
          /\ patient.from = Len(requests)
          /\ patient.symptoms[1] = requests[Len(requests)].input
    /\ ~isTyping => Pending = {}

====
